---- MODULE Spec2Model ----
\* Model of the Kuffner-Sternwarte lightmeter poller (lightmeter.py and
\* lightmeter_daemon.py): one poll cycle (Lightmeter.read), the two command
\* exchanges it drives, the temperature cooldown, the sink step
\* (write_database) and the two polling loops.
\*
\* Units.  Time is counted in hours (the only duration the code uses is
\* timedelta(hours=12)); the polling interval (seconds) is below that
\* resolution, so several polls can carry the same timestamp.  Temperatures are
\* counted in sixteenths of a degree: every value _read_temperature produces is
\* an integer multiple of 1/16 (raw_temp / 16 and 4095 / 16 are exact in binary
\* floating point), so the comparisons with 127.0, 60.0, -30.0 and 35.0 are
\* exact integer comparisons with 2032, 960, -480 and 560.
EXTENDS Integers, Sequences, FiniteSets, TLC

VARIABLES
    suspend_time_utc,   \* Lightmeter.suspend_time_utc (hours)
    clock,              \* the wall clock dt.datetime.now(utc) (hours)
    kill_now,           \* GracefulKiller.kill_now
    mode,               \* which loop runs: --format text/log/none, or the daemon
    pc,                 \* position of the polling loop
    last,               \* the latest call of Lightmeter.read; last.reading is
                        \* the Reading the loop holds (l / lightmeter_reading)
    prev,               \* what the call before it came to, and hot_at as it was
                        \* when the latest call began
    hot_at,             \* timestamp of the latest poll that read a valid
                        \* temperature >= 35.0
    sink,               \* the latest sink step
    probe               \* a codec or calibration function on its own: its
                        \* input and its result

vars == <<suspend_time_utc, clock, kill_now, mode, pc, last, prev, hot_at,
          sink, probe>>

\* ---------------------------------------------------------------- bounds
\* The clock runs from 0 to MaxTime (MaxLoopTime in the polling loops) in
\* steps of Stride hours.
MaxTime == 24
MaxLoopTime == 6
Stride == 6
\* The daylight channel words tried on the calibration: 0..MaxChannel and the
\* largest 16-bit word.
MaxChannel == 150

\* ------------------------------------------------------ program constants
\* timedelta(hours=12)
TwelveHours == 12
\* endpoint_in.read(7), endpoint_in.read(2)
LightLen == 7
TempLen == 2
\* raw_reading < 32000
NonLinear == 32000
\* (0x7FFF >> 3) / 16, in sixteenths
SignFix == 4095
\* 127.0, 60.0, -30.0 and 35.0 degrees, in sixteenths
TooBig == 2032
TempMax == 960
TempMin == -480
TempHot == 560

\* Optional values (Python None / a value).
None == << >>
Some(v) == <<v>>
IsSome(o) == o # None
Val(o) == o[1]

\* ------------------------------------------------------------- the device
\* What the two USB endpoints do in one exchange: endpoint_out.write either
\* raises usb.USBError (transport error or timeout) or returns the number of
\* bytes it accepted; endpoint_in.read either raises usb.USBError or returns
\* the bytes that arrived.
Exchange(wraises, n, rraises, raw) ==
    [wraises |-> wraises, n |-> n, rraises |-> rraises, raw |-> raw]

\* Light frames [b0..b6] as the device sends them: the range byte b2 is an
\* index 1..5 into the gain table.
LightFrames ==
    { <<100, 0, 2, 0, 0, 0, 0>>,        \* raw 100, range 2, no daylight
      <<255, 124, 1, 10, 0, 3, 0>>,     \* raw 31999, range 1
      <<0, 125, 5, 100, 0, 70, 0>> }    \* raw 32000, range 5

LightDevice ==
    { Exchange(TRUE, 0, FALSE, << >>),          \* 'L' write raises USBError
      Exchange(FALSE, 0, FALSE, << >>),         \* write accepts 0 bytes
      Exchange(FALSE, 1, TRUE, << >>),          \* read raises USBError
      Exchange(FALSE, 1, FALSE, <<1, 2, 3>>) }  \* short read
    \cup { Exchange(FALSE, 1, FALSE, f) : f \in LightFrames }

TempFrames ==
    { <<125, 17>>,      \* count 559, status 5: 34.9375
      <<128, 17>>,      \* count 560: 35.0
      <<2, 30>>,        \* count 960, status 2: 60.0
      <<8, 30>>,        \* count 961: 60.0625
      <<255, 255>> }    \* count 8191 (two's complement -1), status 7

TempDevice ==
    { Exchange(TRUE, 0, FALSE, << >>),          \* 'T' write raises USBError
      Exchange(FALSE, 0, FALSE, << >>),         \* write accepts 0 bytes
      Exchange(FALSE, 1, TRUE, << >>),          \* read raises USBError
      Exchange(FALSE, 1, FALSE, <<1>>) }        \* short read
    \cup { Exchange(FALSE, 1, FALSE, f) : f \in TempFrames }

\* The result of a call: it returns a value or raises an exception.
Return(v) == [exc |-> "none", val |-> v]
Raise(e) == [exc |-> e, val |-> None]

\* ------------------------------------------------------------ calibration
\* The calibration with the second interval open at 0.61.
lux_gap(channel0, channel1) ==
    IF ~(channel0 > 0) THEN Return([branch |-> 0, channel0 |-> channel0, channel1 |-> channel1])
    ELSE IF 100 * channel1 <= 50 * channel0
        THEN Return([branch |-> 1, channel0 |-> channel0, channel1 |-> channel1])
    ELSE IF 100 * channel1 > 50 * channel0 /\ 100 * channel1 < 61 * channel0
        THEN Return([branch |-> 2, channel0 |-> channel0, channel1 |-> channel1])
    ELSE IF 100 * channel1 > 61 * channel0 /\ 100 * channel1 <= 80 * channel0
        THEN Return([branch |-> 3, channel0 |-> channel0, channel1 |-> channel1])
    ELSE IF 100 * channel1 > 80 * channel0 /\ 100 * channel1 <= 130 * channel0
        THEN Return([branch |-> 4, channel0 |-> channel0, channel1 |-> channel1])
    ELSE IF 100 * channel1 > 130 * channel0
        THEN Return([branch |-> 5, channel0 |-> channel0, channel1 |-> channel1])
    ELSE Raise("RuntimeError")

\* Lightmeter._lux_from_daysensor.  The result is kept as the branch taken and
\* the channel words it was computed from (the value is 21 times the branch's
\* formula; branch 1 holds a non-integer power).  The ratio tests are made on
\* integers: channel1 / channel0 <= p/100 iff 100 * channel1 <= p * channel0,
\* which agrees with the floating-point test for 16-bit channel words, whose
\* ratios differ from p/100 by 0 or by far more than one rounding step.
lux_from_daysensor(channel0, channel1) ==
    IF ~(channel0 > 0) THEN Return([branch |-> 0, channel0 |-> channel0, channel1 |-> channel1])
    ELSE IF 100 * channel1 <= 50 * channel0
        THEN Return([branch |-> 1, channel0 |-> channel0, channel1 |-> channel1])
    ELSE IF 100 * channel1 > 50 * channel0 /\ 100 * channel1 <= 61 * channel0
        THEN Return([branch |-> 2, channel0 |-> channel0, channel1 |-> channel1])
    ELSE IF 100 * channel1 > 61 * channel0 /\ 100 * channel1 <= 80 * channel0
        THEN Return([branch |-> 3, channel0 |-> channel0, channel1 |-> channel1])
    ELSE IF 100 * channel1 > 80 * channel0 /\ 100 * channel1 <= 130 * channel0
        THEN Return([branch |-> 4, channel0 |-> channel0, channel1 |-> channel1])
    ELSE IF 100 * channel1 > 130 * channel0
        THEN Return([branch |-> 5, channel0 |-> channel0, channel1 |-> channel1])
    ELSE Raise("RuntimeError")

\* The value returned for a failed 'L' write: the integer 0 in the place of
\* the daylight reading (branch 0 is the calibration's own 0.0).
ZeroDaylight == [branch |-> 0, channel0 |-> 0, channel1 |-> 0]

\* ------------------------------------------------------- the command codec
\* The gain table with its last two entries exchanged.
factors_exchanged == <<None, Some(120), Some(8), Some(4), Some(1), Some(2)>>

\* factors = (None, 120, 8, 4, 2, 1), indexed by the range byte.
factors == <<None, Some(120), Some(8), Some(4), Some(2), Some(1)>>

\* Lightmeter._read_light: returns <<reading, daylight, is_ok>> or raises.
read_light(dev) ==
    IF dev.wraises THEN Return(<<0, ZeroDaylight, FALSE>>)
    ELSE IF dev.n # 1 THEN Raise("RuntimeError")
    ELSE IF dev.rraises THEN Raise("USBError")
    ELSE IF Len(dev.raw) # LightLen THEN Raise("RuntimeError")
    ELSE LET raw == dev.raw
             measurement_range == raw[3]
             low_word == 256 * raw[5] + raw[4]
             high_word == 256 * raw[7] + raw[6]
             raw_reading == 256 * raw[2] + raw[1]
             is_ok == raw_reading < NonLinear
             daylight == lux_from_daysensor(low_word, high_word)
         IN  IF measurement_range + 1 > Len(factors) THEN Raise("IndexError")
             ELSE IF factors[measurement_range + 1] = None THEN Raise("TypeError")
             ELSE IF daylight.exc # "none" THEN daylight
             ELSE Return(<<raw_reading * Val(factors[measurement_range + 1]),
                           daylight.val, is_ok>>)

\* The decoding half of Lightmeter._read_temperature: the two bytes to
\* <<temperature (sixteenths of a degree), status>>.
decode_temperature(raw) ==
    LET raw16 == raw[2] * 256 + raw[1]
        status == raw16 % 8
        raw_temp == raw16 \div 8
        temperature == IF raw_temp > TooBig THEN raw_temp - SignFix ELSE raw_temp
    IN  <<temperature, status>>

\* Lightmeter._read_temperature: returns <<temperature, status>> or raises.
read_temperature(dev) ==
    IF dev.wraises THEN Raise("USBError")
    ELSE IF dev.n # 1 THEN Raise("RuntimeError")
    ELSE IF dev.rraises THEN Raise("USBError")
    ELSE IF Len(dev.raw) # TempLen THEN Raise("RuntimeError")
    ELSE Return(decode_temperature(dev.raw))

\* ---------------------------------------------------------- Lightmeter.read
\* Lightmeter.Reading.
Reading(utc, lightlevel, daylight, temperature, status) ==
    [utc |-> utc, lightlevel |-> lightlevel, daylight |-> daylight,
     temperature |-> temperature, status |-> status]

\* "if utc >= self.suspend_time_utc": the temperature is sampled this cycle.
sample_due(utc, suspend) == utc >= suspend

\* The range check without its upper limit.
validate_no_upper(temperature) ==
    IF IsSome(temperature) /\ Val(temperature) < TempMin
    THEN None ELSE temperature

\* The range check: a value outside [-30.0, 60.0] is discarded.
validate(temperature) ==
    IF IsSome(temperature)
       /\ (Val(temperature) > TempMax \/ Val(temperature) < TempMin)
    THEN None ELSE temperature

\* The re-arming with its two branches exchanged.
rearm_swapped(utc, temperature, suspend) ==
    IF IsSome(temperature)
    THEN IF Val(temperature) < TempHot THEN utc + TwelveHours ELSE utc
    ELSE suspend

\* The cooldown after the range check, from the cooldown before it.
rearm(utc, temperature, suspend) ==
    IF IsSome(temperature)
    THEN IF Val(temperature) < TempHot THEN utc ELSE utc + TwelveHours
    ELSE suspend

\* except RuntimeError: which exceptions of the two exchanges read() handles.
handled(exc) == exc = "RuntimeError"

\* The commands _read_light writes: endpoint_out.write('L'), once, before
\* anything is read.
light_writes(dev) == <<"L">>

\* The temperature command written again after a short write.
temperature_writes_retry(dev) ==
    IF ~dev.wraises /\ dev.n # 1 THEN <<"T", "T">> ELSE <<"T">>

\* The commands _read_temperature writes: endpoint_out.write('T'), once.
temperature_writes(dev) == <<"T">>

\* One call of Lightmeter.read at time utc with cooldown instant suspend,
\* against a device that answers the light exchange as ldev and the
\* temperature exchange (if it is made) as tdev.  The result names the
\* commands written, the exception raised or the Reading returned, the
\* cooldown instant afterwards, and what each exchange came to.
read(utc, suspend, ldev, tdev) ==
    LET light == read_light(ldev)
        lightfail == light.exc # "none"
        lightlevel == IF lightfail THEN None ELSE Some(light.val[1])
        daylight == IF lightfail THEN None ELSE Some(light.val[2])
        is_ok1 == IF lightfail THEN FALSE ELSE light.val[3]
        due == sample_due(utc, suspend)
        temp == read_temperature(tdev)
        tempfail == temp.exc # "none"
        temperature1 == IF due /\ ~tempfail THEN Some(temp.val[1]) ELSE None
        is_ok == IF due /\ tempfail THEN FALSE ELSE is_ok1
        suspend1 == IF due /\ ~tempfail THEN utc ELSE suspend
        temperature == validate(temperature1)
        suspend2 == rearm(utc, temperature, suspend1)
        base == [utc |-> utc, before |-> suspend, ldev |-> ldev,
                 lightexc |-> light.exc]
    IN  IF lightfail /\ ~handled(light.exc)
        THEN base @@ [cmds |-> light_writes(ldev), exc |-> light.exc,
                      reading |-> None,
                      after |-> suspend, tdev |-> None, tempexc |-> "none",
                      decoded |-> None]
        ELSE IF due /\ tempfail /\ ~handled(temp.exc)
        THEN base @@ [cmds |-> light_writes(ldev) \o temperature_writes(tdev),
                      exc |-> temp.exc, reading |-> None,
                      after |-> suspend, tdev |-> Some(tdev),
                      tempexc |-> temp.exc, decoded |-> None]
        ELSE base @@ [cmds |-> IF due
                               THEN light_writes(ldev)
                                    \o temperature_writes(tdev)
                               ELSE light_writes(ldev),
                      exc |-> "none",
                      reading |-> Some(Reading(utc, lightlevel, daylight,
                                               temperature, is_ok)),
                      after |-> suspend2,
                      tdev |-> IF due THEN Some(tdev) ELSE None,
                      tempexc |-> IF due THEN temp.exc ELSE "none",
                      decoded |-> temperature1]

\* No call yet.
NoCall ==
    [utc |-> -1, before |-> 0, ldev |-> Exchange(FALSE, 1, FALSE, << >>),
     lightexc |-> "none", cmds |-> << >>, exc |-> "none", reading |-> None,
     after |-> 0, tdev |-> None, tempexc |-> "none", decoded |-> None]

\* What a call came to, as far as the cooldown is concerned.
Kind(call) ==
    IF call.exc # "none" THEN "raised"
    ELSE IF call.tdev = None THEN "suspended"
    ELSE IF call.tempexc # "none" THEN "tempfail"
    ELSE IF Val(call.reading).temperature = None THEN "discarded"
    ELSE IF Val(Val(call.reading).temperature) < TempHot THEN "below35"
    ELSE "hot"

\* ------------------------------------------------------------ the sink step
\* What client.write_points does: it returns, or raises one of the client
\* library's exceptions.
WriteOutcomes ==
    {"ok", "InfluxDBServerError", "InfluxDBClientError", "ConnectionError",
     "Timeout"}

\* except exceptions.InfluxDBServerError.
db_handled(exc) == exc = "InfluxDBServerError"

\* Lightmeter.write_database: the watts formula divides reading.lightlevel,
\* then write_points is called.
write_database(r, db) ==
    IF r.lightlevel = None
    THEN [ran |-> TRUE, exc |-> "TypeError", wrote |-> FALSE, logged |-> FALSE,
          db |-> "ok"]
    ELSE IF db = "ok"
    THEN [ran |-> TRUE, exc |-> "none", wrote |-> TRUE, logged |-> FALSE,
          db |-> db]
    ELSE IF db_handled(db)
    THEN [ran |-> TRUE, exc |-> "none", wrote |-> TRUE, logged |-> TRUE,
          db |-> db]
    ELSE [ran |-> TRUE, exc |-> db, wrote |-> TRUE, logged |-> FALSE, db |-> db]

\* The sink step of the loop: --format text prints and writes the database,
\* log prints and logs the light level, none does nothing; the daemon writes
\* the database.
output(m, r, db) ==
    IF m \in {"text", "daemon"} THEN write_database(r, db)
    ELSE [ran |-> TRUE, exc |-> "none", wrote |-> FALSE, logged |-> FALSE,
          db |-> "ok"]

\* No sink step yet in this cycle.
NoSink ==
    [ran |-> FALSE, exc |-> "none", wrote |-> FALSE, logged |-> FALSE,
     db |-> "ok"]

NoProbe == [k |-> 0, s |-> 0, raw |-> << >>, out |-> << >>]

\* ------------------------------------------------------------------- state
Modes == {"text", "log", "none", "daemon"}

NoPrev == [kind |-> "none", hot |-> None]

\* The state after construction (Lightmeter.__init__, connect_db,
\* GracefulKiller.__init__): the cooldown instant is the creation time.
Start ==
    /\ clock = 0
    /\ suspend_time_utc = 0
    /\ kill_now = FALSE
    /\ pc = "test"
    /\ last = NoCall
    /\ prev = NoPrev
    /\ hot_at = None
    /\ sink = NoSink

\* A call of lmeter.read() at the current time: the session's state after it
\* and the history of calls.
Call(ldev, tdev) ==
    LET call == read(clock, suspend_time_utc, ldev, tdev)
    IN  /\ last' = call
        /\ prev' = [kind |-> IF last.utc < 0 THEN "none" ELSE Kind(last),
                    hot |-> hot_at]
        /\ suspend_time_utc' = call.after
        /\ hot_at' = IF Kind(call) = "hot" THEN Some(clock) ELSE hot_at

\* ------------------------------------------------- the session on its own
\* Lightmeter.read called by any caller, at any time.
Poll ==
    /\ \E ldev \in LightDevice, tdev \in TempDevice : Call(ldev, tdev)
    /\ UNCHANGED <<clock, kill_now, mode, pc, sink, probe>>

\* Time passes.
Tick ==
    /\ clock + Stride <= MaxTime
    /\ clock' = clock + Stride
    /\ UNCHANGED <<suspend_time_utc, kill_now, mode, pc, last, prev, hot_at,
                   sink, probe>>

Init == Start /\ mode = "none" /\ probe = NoProbe

Next == Poll \/ Tick

Spec == Init /\ [][Next]_vars

\* ------------------------------------------------------ the polling loops
\* The loop test passes (while not killer.kill_now; while True in the
\* daemon) and the loop body begins.
LoopTest ==
    /\ pc = "test"
    /\ mode = "daemon" \/ ~kill_now
    /\ pc' = "read"
    /\ UNCHANGED <<suspend_time_utc, clock, kill_now, mode, last, prev, hot_at,
                   sink, probe>>

\* The loop body calls lmeter.read(); an exception it raises leaves the loop.
LoopRead ==
    /\ pc = "read"
    /\ \E ldev \in LightDevice, tdev \in TempDevice :
         /\ Call(ldev, tdev)
         /\ pc' = IF read(clock, suspend_time_utc, ldev, tdev).exc = "none"
                  THEN "sink" ELSE "crashed"
    /\ sink' = NoSink
    /\ UNCHANGED <<clock, kill_now, mode, probe>>

\* while not killer.kill_now: the flag is set and the loop ends.
LoopExit ==
    /\ pc = "test"
    /\ mode # "daemon"
    /\ kill_now
    /\ pc' = "done"
    /\ UNCHANGED <<suspend_time_utc, clock, kill_now, mode, last, prev, hot_at,
                   sink, probe>>

\* The sink step for the Reading just returned; an exception it raises
\* leaves the loop.
Sink ==
    /\ pc = "sink"
    /\ \E db \in WriteOutcomes :
         LET out == output(mode, Val(last.reading), db)
         IN  /\ sink' = out
             /\ pc' = IF out.exc = "none" THEN "wait" ELSE "crashed"
    /\ UNCHANGED <<suspend_time_utc, clock, kill_now, mode, last, prev, hot_at,
                   probe>>

\* The busy wait for the rest of the interval.
Wait ==
    /\ pc = "wait"
    /\ pc' = "test"
    /\ UNCHANGED <<suspend_time_utc, clock, kill_now, mode, last, prev, hot_at,
                   sink, probe>>

\* SIGINT or SIGTERM: GracefulKiller.exit_gracefully sets the flag.
Signal ==
    /\ mode # "daemon"
    /\ pc \in {"test", "read", "sink", "wait"}
    /\ ~kill_now
    /\ kill_now' = TRUE
    /\ UNCHANGED <<suspend_time_utc, clock, mode, pc, last, prev, hot_at,
                   sink, probe>>

\* Time passes during the wait.
LoopTick ==
    /\ pc = "wait"
    /\ clock + Stride <= MaxLoopTime
    /\ clock' = clock + Stride
    /\ UNCHANGED <<suspend_time_utc, kill_now, mode, pc, last, prev, hot_at,
                   sink, probe>>

\* SIGTERM in the daemon: main_program installs no handler and tests no
\* flag (GracefulKiller is created in lightmeter.py's __main__ block only), so
\* the signal ends the process at whatever point the loop has reached.
Terminate ==
    /\ mode = "daemon"
    /\ pc \in {"test", "read", "sink", "wait"}
    /\ pc' = CASE pc = "test" -> "killed_in_test"
               [] pc = "read" -> "killed_in_read"
               [] pc = "sink" -> "killed_in_sink"
               [] pc = "wait" -> "killed_in_wait"
    /\ UNCHANGED <<suspend_time_utc, clock, kill_now, mode, last, prev, hot_at,
                   sink, probe>>

InitLoop == Start /\ mode \in Modes /\ probe = NoProbe

NextLoop ==
    LoopTest \/ LoopRead \/ LoopExit \/ Sink \/ Wait \/ Signal \/ Terminate
        \/ LoopTick

LoopSpec == InitLoop /\ [][NextLoop]_vars

\* ------------------------------------------------- the temperature codec
\* The sensor's side of the temperature exchange: a count k of sixteenths of
\* a degree in 13-bit two's complement above 3 status bits s, sent low byte
\* first.
encode_temperature(k, s) ==
    LET raw16 == (k % 8192) * 8 + s
    IN  <<raw16 % 256, raw16 \div 256>>

\* Every count of the 13-bit field, with every status.
InitCodec ==
    /\ Start
    /\ mode = "none"
    /\ probe \in {[NoProbe EXCEPT !.k = k, !.s = s] :
                      k \in -4096..4095, s \in 0..7}

\* The sensor answers the 'T' command.
Encode ==
    /\ probe.raw = << >>
    /\ probe' = [probe EXCEPT !.raw = encode_temperature(probe.k, probe.s)]
    /\ UNCHANGED <<suspend_time_utc, clock, kill_now, mode, pc, last, prev,
                   hot_at, sink>>

\* _read_temperature decodes the two bytes.
Decode ==
    /\ probe.raw # << >>
    /\ probe.out = << >>
    /\ probe' = [probe EXCEPT !.out = decode_temperature(probe.raw)]
    /\ UNCHANGED <<suspend_time_utc, clock, kill_now, mode, pc, last, prev,
                   hot_at, sink>>

NextCodec == Encode \/ Decode

CodecSpec == InitCodec /\ [][NextCodec]_vars

\* ------------------------------------------------------- the light codec
\* A light frame with the given raw reading bytes and range byte, the
\* daylight channels dark.
LightFrame(b0, b1, b2) == <<b0, b1, b2, 0, 0, 0, 0>>

\* Every raw reading with every range byte 1..5 of the device.
InitLight ==
    /\ Start
    /\ mode = "none"
    /\ probe \in {[frame |-> LightFrame(b0, b1, b2), out |-> None] :
                      b0 \in 0..255, b1 \in 0..255, b2 \in 1..5}

\* _read_light with both transfers complete.
DecodeLight ==
    /\ probe.out = None
    /\ probe' = [probe EXCEPT
                   !.out = Some(read_light(Exchange(FALSE, 1, FALSE,
                                                    probe.frame)))]
    /\ UNCHANGED <<suspend_time_utc, clock, kill_now, mode, pc, last, prev,
                   hot_at, sink>>

NextLight == DecodeLight

LightSpec == InitLight /\ [][NextLight]_vars

\* --------------------------------------------------- the calibration alone
\* The 16-bit words 256 * raw[4] + raw[3] and 256 * raw[6] + raw[5] that
\* _read_light hands to the calibration.
ChannelWords == (0..MaxChannel) \cup {256 * 255 + 255}

InitCal ==
    /\ Start
    /\ mode = "none"
    /\ probe \in {[channel0 |-> c0, channel1 |-> c1, out |-> None] :
                      c0 \in ChannelWords, c1 \in ChannelWords}

\* _read_light calls the calibration on the two words.
Calibrate ==
    /\ probe.out = None
    /\ probe' = [probe EXCEPT
                   !.out = Some(lux_from_daysensor(probe.channel0,
                                                   probe.channel1))]
    /\ UNCHANGED <<suspend_time_utc, clock, kill_now, mode, pc, last, prev,
                   hot_at, sink>>

NextCal == Calibrate

CalSpec == InitCal /\ [][NextCal]_vars

\* ================================================================== claims
Called == last.utc >= 0
Returned == Called /\ last.exc = "none"
Issued(call, c) == \E i \in 1..Len(call.cmds) : call.cmds[i] = c
TempAttempted == Called /\ last.tdev # None
TempFailed == TempAttempted /\ last.tempexc # "none"

\* An exchange in which the device fails: the write raises, the write accepts
\* a byte count other than 1, the read raises, or the read returns a wrong
\* number of bytes.
Fault(dev, len) ==
    dev.wraises \/ dev.n # 1 \/ dev.rraises \/ Len(dev.raw) # len

\* C1. Cooldown suppression: after a poll at t0 that read a valid temperature
\* >= 35.0, every later call of read with a timestamp strictly before
\* t0 + 12 hours issues no 'T' command, returns a Reading with temperature
\* None, and leaves the cooldown instant unchanged.
C1_CooldownSuppression ==
    (Called /\ prev.hot # None /\ last.utc < Val(prev.hot) + TwelveHours)
        => /\ ~Issued(last, "T")
           /\ last.after = last.before
           /\ last.exc = "none"
           /\ Val(last.reading).temperature = None

\* C2. Cooldown state transitions: a call that starts Temperature-Active
\* (cooldown instant <= now) ends Temperature-Cooling (cooldown instant > now)
\* only when its temperature command succeeded with a decoded value in
\* [35.0, 60.0]; on every other path it ends Temperature-Active.
StartedActive == Called /\ last.before <= last.utc
EndedCooling == last.after > last.utc
HotValid ==
    /\ TempAttempted
    /\ last.tempexc = "none"
    /\ last.decoded # None
    /\ Val(last.decoded) >= TempHot
    /\ Val(last.decoded) <= TempMax

C2_CoolingOnlyOnHotValid ==
    StartedActive =>
        /\ EndedCooling => HotValid
        /\ ~HotValid => last.after <= last.utc

C2_Witness ==
    /\ StartedActive
    /\ EndedCooling
    /\ Val(last.decoded) = TempMax

\* C3. No per-cycle transport failure escapes the poll: whenever the device
\* fails in the light exchange or in the temperature exchange, read still
\* returns a Reading (with status False) and raises nothing.
TransportFault ==
    /\ Called
    /\ \/ Fault(last.ldev, LightLen)
       \/ last.tdev # None /\ Fault(Val(last.tdev), TempLen)

C3_NoFailureEscapes ==
    TransportFault =>
        /\ last.exc = "none"
        /\ last.reading # None
        /\ Val(last.reading).status = FALSE

\* C4. Uniform light-failure policy: whenever the light command fails by a
\* transport error on the 'L' write, a short write or a short read, the
\* Reading returned has lightlevel None, daylight None and status False, and
\* the temperature decision of the cycle is still made.
LightFailed ==
    /\ Called
    /\ \/ last.ldev.wraises
       \/ last.ldev.n # 1
       \/ ~last.ldev.rraises /\ Len(last.ldev.raw) # LightLen

C4_UniformLightFailure ==
    LightFailed =>
        /\ last.exc = "none"
        /\ Val(last.reading).lightlevel = None
        /\ Val(last.reading).daylight = None
        /\ Val(last.reading).status = FALSE
        /\ Issued(last, "T") <=> sample_due(last.utc, last.before)

\* C6. Implausible temperatures are never reported: the temperature of every
\* Reading returned is None or within [-30.0, 60.0]; and when a sample that
\* was read successfully is discarded as out of range, the cooldown instant
\* after the call is the call's timestamp, so that the temperature is due
\* again in the next poll.
Discarded ==
    /\ Returned
    /\ last.decoded # None
    /\ Val(last.reading).temperature = None

LightLinear ==
    /\ ~Fault(last.ldev, LightLen)
    /\ 256 * last.ldev.raw[2] + last.ldev.raw[1] < NonLinear

C7_TemperatureFaultDowngrades ==
    /\ TempFailed =>
          /\ last.exc = "none"
          /\ Val(last.reading).temperature = None
          /\ Val(last.reading).status = FALSE
    /\ (Returned /\ Val(last.reading).status) => LightLinear

\* C8. Re-arm below 35: when a poll at time now obtains a valid temperature
\* < 35.0, the cooldown instant after the call is now, and the next call of
\* read issues the 'T' command again.
C8_RearmBelow35 ==
    /\ (Called /\ Kind(last) = "below35") => last.after = last.utc
    /\ (Called /\ prev.kind = "below35") => Issued(last, "T")

\* C5. Temperature decode round-trip: for every count k of the 13-bit
\* two's-complement field and every status s, decoding the two bytes of
\* ((k mod 8192) << 3) | s gives a temperature within 1/16 degree of k/16
\* and status s.
C5_DecodeRoundTrip ==
    probe.out # << >> =>
        /\ probe.out[1] - probe.k <= 1
        /\ probe.k - probe.out[1] <= 1
        /\ probe.out[2] = probe.s

\* C9. Polling loop survives degraded readings: after a poll that returned a
\* Reading with lightlevel absent, the sink step for that Reading completes
\* and the loop goes on to the next cycle; the loop ends only when it has
\* been signaled to stop.
C9_LoopSurvivesDegraded ==
    /\ (sink.ran /\ Val(last.reading).lightlevel = None) =>
          /\ sink.exc = "none"
          /\ pc # "crashed"
    /\ pc = "done" => kill_now

\* C10. Sink failures do not crash the polling loop: however write_points
\* fails, write_database logs the failure and returns normally, and the loop
\* proceeds to the next cycle.
C10_SinkFailureLogged ==
    (sink.wrote /\ sink.db # "ok") =>
        /\ sink.exc = "none"
        /\ sink.logged
        /\ pc # "crashed"

\* C11. Light decode: for every light frame with range byte b2 in 1..5,
\* _read_light returns lightlevel = (b0 + 256 * b1) * G[b2] with
\* G = (120, 8, 4, 2, 1), and is_ok is False exactly when
\* b0 + 256 * b1 >= 32000; the scaled value is returned either way.
Gain == <<120, 8, 4, 2, 1>>
ProbeRaw == probe.frame[1] + 256 * probe.frame[2]

C11_LightDecode ==
    ("frame" \in DOMAIN probe /\ probe.out # None) =>
        LET out == Val(probe.out)
        IN  /\ out.exc = "none"
            /\ out.val[1] = ProbeRaw * Gain[probe.frame[3]]
            /\ out.val[3] = FALSE <=> ProbeRaw >= 32000

C11_Witness ==
    /\ "frame" \in DOMAIN probe
    /\ probe.out # None
    /\ ProbeRaw = 32000
    /\ probe.frame[3] = 4
    /\ Val(probe.out).val[1] = 64000
    /\ Val(probe.out).val[3] = FALSE

\* C12. Reading field invariant: in every Reading returned, status is a
\* boolean, lightlevel and daylight are both present or both absent, and they
\* are both absent with status False exactly when the light read of the
\* cycle failed.
C12_ReadingFields ==
    Returned =>
        LET r == Val(last.reading)
        IN  /\ r.status \in BOOLEAN
            /\ r.lightlevel = None <=> r.daylight = None
            /\ (r.lightlevel = None /\ r.daylight = None /\ r.status = FALSE)
                   <=> Fault(last.ldev, LightLen)

\* C13. Command ordering within a cycle: every call writes 'L' exactly once
\* and first, then 'T' at most once and only after the light exchange has
\* finished (succeeded or failed); no call makes more than two exchanges.
C13_CommandOrder ==
    Called =>
        /\ last.cmds \in {<<"L">>, <<"L", "T">>}
        /\ Issued(last, "T") => last.lightexc \in {"none", "RuntimeError"}

C13_Witness ==
    /\ Called
    /\ last.cmds = <<"L", "T">>
    /\ last.lightexc = "RuntimeError"
    /\ ~Val(last.tdev).wraises
    /\ Val(last.tdev).n # 1

\* C14. Cooperative shutdown: in the polling loops a signal that arrives
\* during a call of read does not interrupt it (the read and its sink step
\* complete); the flag is tested between cycles only.
C14_CooperativeShutdown ==
    pc \notin {"killed_in_read", "killed_in_sink"}

\* C15. Calibration totality: _lux_from_daysensor returns 0.0 when
\* channel0 <= 0; for channel0 > 0 the ratio channel1 / channel0 lies in
\* exactly one of the partitions <= 0.50, (0.50, 0.61], (0.61, 0.80],
\* (0.80, 1.30], > 1.30, the branch of that partition is the one taken, and
\* 'Invalid daysensor channel ratio' is never raised.
InPartition(i, c0, c1) ==
    CASE i = 1 -> 100 * c1 <= 50 * c0
      [] i = 2 -> 50 * c0 < 100 * c1 /\ 100 * c1 <= 61 * c0
      [] i = 3 -> 61 * c0 < 100 * c1 /\ 100 * c1 <= 80 * c0
      [] i = 4 -> 80 * c0 < 100 * c1 /\ 100 * c1 <= 130 * c0
      [] i = 5 -> 130 * c0 < 100 * c1

C15_CalibrationTotal ==
    ("channel0" \in DOMAIN probe /\ probe.out # None) =>
        LET out == Val(probe.out)
            c0 == probe.channel0
            c1 == probe.channel1
        IN  /\ out.exc = "none"
            /\ c0 <= 0 => out.val.branch = 0
            /\ c0 > 0 =>
                  /\ Cardinality({i \in 1..5 : InPartition(i, c0, c1)}) = 1
                  /\ out.val.branch \in 1..5
                  /\ InPartition(out.val.branch, c0, c1)

C15_Witness ==
    /\ "channel0" \in DOMAIN probe
    /\ probe.out # None
    /\ probe.channel0 = 100
    /\ probe.channel1 = 61
    /\ Val(probe.out).exc = "none"
    /\ Val(probe.out).val.branch = 2

\* C16. Temperature sampling is never suspended forever: with non-decreasing
\* timestamps the cooldown instant is at most the latest poll's timestamp plus
\* 12 hours, and the first poll whose timestamp is >= the cooldown instant
\* (the first call of the session, or the first one after a suspended poll)
\* issues the 'T' command.
FirstDue ==
    /\ Called
    /\ sample_due(last.utc, last.before)
    /\ prev.kind \in {"none", "suspended"}

C16_SamplingResumes ==
    /\ Called => suspend_time_utc <= last.utc + TwelveHours
    /\ FirstDue => Issued(last, "T")

\* C17. Fresh session starts Temperature-Active: the cooldown instant starts
\* at the creation time, so the first call of read issues 'T'; a failed
\* temperature command leaves the cooldown instant unchanged, and the poll
\* that follows it issues 'T' again.
C17_FreshSessionActive ==
    /\ ~Called => suspend_time_utc <= clock
    /\ (Called /\ prev.kind = "none") => Issued(last, "T")
    /\ TempFailed => last.after = last.before
    /\ (Called /\ prev.kind = "tempfail") => Issued(last, "T")
====
